---- MODULE Spec2Model ----
(***************************************************************************)
(* Real-time chat server of the clinic backend                             *)
(* (backend/app/services/chat_server.py): the Socket.IO event handlers,    *)
(* the in-memory connection and room tracking, and the `messages` table;   *)
(* and the message encryption and key directory it imports                 *)
(* (backend/app/services/chat_security.py).                                *)
(*                                                                         *)
(* Each handler is one action.  The observable result of the handler that  *)
(* ran last (the sio.emit calls it made with the connections each call     *)
(* reached, an exception that escaped it, what it handed to storage) is    *)
(* kept in the variable `last`.                                            *)
(***************************************************************************)
EXTENDS Integers, Sequences, FiniteSets, TLC

(***************************************************************************)
(* Bounds                                                                  *)
(***************************************************************************)
MaxStore == 2       \* rows the messages table may hold
SeedRows == 2       \* rows the messages table may hold at server start
MaxIds == 2         \* length of a mark_as_read id list
HistRows == 5       \* rows of the table in the history specification

Sids == {"s1", "s2"}
SidIndex(s) == IF s = "s1" THEN 1 ELSE 2
Convs == {"c1", "c2"}
PatientIds == {"p1", "p2"}
Contents == {"hello"}
\* str(uuid.uuid4()): a text, never one of the integer keys the table assigns
\* (which are positive); told apart from them here by its sign
Uuids == {-1}

\* Python's None, and the timestamp datetime.now() yields
None == "None"
Now == "now"

(***************************************************************************)
(* Event payloads: a Python dict is a record with the set of its keys in   *)
(* `keys`; a field whose key is absent holds None and is never read        *)
(* except through Get.                                                     *)
(***************************************************************************)
Has(data, field) == field \in data.keys
Get(data, field, default) == IF Has(data, field) THEN data[field] ELSE default
\* mutant: only None is falsy
Falsy_none_only(x) == x = None

\* Python truthiness of a str-or-None value
Falsy(x) == x \in {None, ""}

VARIABLES
    uuid_imported,    \* TRUE iff the module runs as __main__ (line 549)
    transport,        \* sid -> "idle" | "connected" | "closed" | "refused"
    rooms,            \* conversation id -> set of sids in the Socket.IO room
    connected_users,  \* sid -> [user_id, role]
    user_rooms,       \* user_id -> list of conversation ids
    store,            \* the messages table, in insertion order
    last,             \* observable result of the last handler
    crypto,           \* last call into chat_security.py and what it returned
    loop              \* handler tasks in flight, and what was sent and stored

vars == <<uuid_imported, transport, rooms, connected_users, user_rooms, store, last,
         crypto, loop>>

\* no event received yet
LoopIdle == [tasks |-> <<>>, log |-> <<>>, inbox |-> [s \in Sids |-> <<>>]]

(***************************************************************************)
(* The values connect() assigns in place of token validation               *)
(***************************************************************************)
TokenUserId == "123"
TokenRole == "staff"
UserIds == {TokenUserId}

(***************************************************************************)
(* Socket.IO server object `sio`: rooms are sets of sids, every connected  *)
(* sid is alone in the room named after it, emit(room=...) reaches the     *)
(* members of the room except skip_sid, and closing a session removes the  *)
(* sid from every room.                                                    *)
(***************************************************************************)
Members(rm, room) == IF room \in DOMAIN rm THEN rm[room] ELSE {}

enter_room(rm, sid, room) ==
    IF room \in DOMAIN rm THEN [rm EXCEPT ![room] = @ \cup {sid}] ELSE rm

leave_room(rm, sid, room) ==
    IF room \in DOMAIN rm THEN [rm EXCEPT ![room] = @ \ {sid}] ELSE rm

RECURSIVE leave_rooms(_, _, _)
leave_rooms(rm, sid, roomList) ==
    IF roomList = <<>> THEN rm
    ELSE leave_rooms(leave_room(rm, sid, Head(roomList)), sid, Tail(roomList))

manager_disconnect(rm, sid) == [r \in DOMAIN rm |-> rm[r] \ {sid}]

\* sio.emit(event, data, room=sid)
EmitSid(tr, sid, event, data) ==
    [event |-> event, data |-> data, room |-> None,
     to |-> IF tr[sid] = "connected" THEN {sid} ELSE {}]

\* sio.emit(event, data, room=conversation_id, skip_sid=...)
EmitRoom(rm, room, skip, event, data) ==
    [event |-> event, data |-> data, room |-> room,
     to |-> Members(rm, room) \ skip]

\* a handler runs for a session that is open, or that closed while the event
\* was waiting to be handled
Reachable(sid) == transport[sid] \in {"connected", "closed"}

NoData == [keys |-> {}]

\* the parts of the state the handler changed
Writes ==
    (IF store' # store THEN {"store"} ELSE {}) \cup
    (IF rooms' # rooms THEN {"rooms"} ELSE {}) \cup
    (IF user_rooms' # user_rooms THEN {"user_rooms"} ELSE {}) \cup
    (IF connected_users' # connected_users THEN {"connected_users"} ELSE {})

Result(op, sid, data, emits) ==
    [op |-> op, sid |-> sid, data |-> data, emits |-> emits,
     fault |-> FALSE, db_failed |-> FALSE, db_down |-> FALSE, saved |-> <<>>,
     steps |-> <<>>, writes |-> Writes]

\* mutant: the error goes to every open session
ErrorTo_everyone(tr, sid, message) ==
    [event |-> "error", data |-> [message |-> message], room |-> None,
     to |-> {s \in Sids : tr[s] = "connected"}]

ErrorTo(tr, sid, message) == EmitSid(tr, sid, "error", [message |-> message])

(***************************************************************************)
(* connect(sid, environ)                                                   *)
(***************************************************************************)
\* sids are handed out in order
SidBefore(sid) == {s \in Sids : SidIndex(s) < SidIndex(sid)}

\* the tokens a client may present: one nobody issued, one issued to the
\* staff user "123", one issued to the patient "p1"
Tokens == {"invalid", "token-staff-123", "token-patient-p1"}

\* the Authorization header as scheme and token; environ.get(..., '') yields
\* the empty header when the key is absent
NoHeader == [scheme |-> "", token |-> ""]
Environs ==
    {[keys |-> {}, HTTP_AUTHORIZATION |-> NoHeader]} \cup
    {[keys |-> {"HTTP_AUTHORIZATION"},
      HTTP_AUTHORIZATION |-> [scheme |-> "Bearer", token |-> t]] : t \in Tokens}

\* line 143: auth_header.startswith('Bearer ')
bearer_header(environ) ==
    Get(environ, "HTTP_AUTHORIZATION", NoHeader).scheme = "Bearer"

Connect(sid, environ) ==
    /\ transport[sid] = "idle"
    /\ \A s \in SidBefore(sid) : transport[s] # "idle"
    /\ UNCHANGED <<crypto, loop, uuid_imported, rooms, user_rooms, store>>
    /\ IF bearer_header(environ)
       THEN /\ transport' = [transport EXCEPT ![sid] = "connected"]
            /\ connected_users' =
                 [s \in DOMAIN connected_users \cup {sid} |->
                    IF s = sid THEN [user_id |-> TokenUserId, role |-> TokenRole]
                    ELSE connected_users[s]]
            /\ last' = Result("connect", sid, environ,
                 <<EmitSid(transport', sid, "auth_success",
                           [user_id |-> TokenUserId, role |-> TokenRole])>>)
       ELSE /\ transport' = [transport EXCEPT ![sid] = "refused"]
            /\ connected_users' = connected_users
            /\ last' = Result("connect", sid, environ, <<>>)

(***************************************************************************)
(* disconnect(sid), followed by the server's own removal of the closed     *)
(* session from its rooms                                                  *)
(***************************************************************************)
DropKey(f, k) == [x \in DOMAIN f \ {k} |-> f[x]]

disconnect_tracked(sid) ==
    IF sid \in DOMAIN connected_users
       /\ connected_users[sid].user_id \in DOMAIN user_rooms
    THEN user_rooms[connected_users[sid].user_id]
    ELSE <<>>

\* mutant: the Connection record is not deleted
disconnect_users_kept(sid) == connected_users

disconnect_users(sid) == DropKey(connected_users, sid)

\* mutant: the tracked rooms are dropped without looking for the
\* Connection record
disconnect_user_rooms_unguarded(sid) == DropKey(user_rooms, TokenUserId)

disconnect_user_rooms(sid) ==
    IF sid \in DOMAIN connected_users
    THEN DropKey(user_rooms, connected_users[sid].user_id)
    ELSE user_rooms

\* run when a session closes, and again for a session already closed or one
\* whose handshake was refused
Disconnect(sid) ==
    /\ transport[sid] \in {"connected", "closed", "refused"}
    /\ rooms' = manager_disconnect(leave_rooms(rooms, sid, disconnect_tracked(sid)), sid)
    /\ user_rooms' = disconnect_user_rooms(sid)
    /\ connected_users' = disconnect_users(sid)
    /\ transport' = [transport EXCEPT ![sid] = IF @ = "refused" THEN @ ELSE "closed"]
    /\ UNCHANGED <<crypto, loop, uuid_imported, store>>
    /\ last' = Result("disconnect", sid, NoData, <<>>)

(***************************************************************************)
(* join_conversation(sid, data)                                            *)
(***************************************************************************)
JoinPayloads ==
    {[keys |-> {}, conversation_id |-> None]} \cup
    {[keys |-> {"conversation_id"}, conversation_id |-> c] : c \in Convs \cup {""}}

\* mutant: the room is appended without looking for it in the list
join_track_append(ur, user_id, conversation_id) ==
    LET cur == IF user_id \in DOMAIN ur THEN ur[user_id] ELSE <<>>
    IN  [u \in DOMAIN ur \cup {user_id} |->
            IF u = user_id THEN Append(cur, conversation_id) ELSE ur[u]]

\* lines 209-212: the list of rooms tracked for the user
join_track(ur, user_id, conversation_id) ==
    LET cur == IF user_id \in DOMAIN ur THEN ur[user_id] ELSE <<>>
        new == IF \E i \in DOMAIN cur : cur[i] = conversation_id
               THEN cur ELSE Append(cur, conversation_id)
    IN  [u \in DOMAIN ur \cup {user_id} |-> IF u = user_id THEN new ELSE ur[u]]

JoinConversation(sid, data) ==
    /\ Reachable(sid)
    /\ UNCHANGED <<crypto, loop, uuid_imported, transport, connected_users, store>>
    /\ IF sid \notin DOMAIN connected_users
       THEN /\ UNCHANGED <<rooms, user_rooms>>
            /\ last' = Result("join_conversation", sid, data,
                              <<ErrorTo(transport, sid, "not authenticated")>>)
       ELSE LET conversation_id == Get(data, "conversation_id", None)
                user_id == connected_users[sid].user_id
            IN  IF Falsy(conversation_id)
                THEN /\ UNCHANGED <<rooms, user_rooms>>
                     /\ last' = Result("join_conversation", sid, data,
                                   <<ErrorTo(transport, sid, "no conversation id")>>)
                ELSE /\ rooms' = enter_room(rooms, sid, conversation_id)
                     /\ user_rooms' = join_track(user_rooms, user_id, conversation_id)
                     /\ last' = Result("join_conversation", sid, data,
                                   <<EmitSid(transport, sid, "joined_conversation",
                                       [conversation_id |-> conversation_id,
                                        timestamp |-> Now])>>)

(***************************************************************************)
(* leave_conversation(sid, data)                                           *)
(***************************************************************************)
RECURSIVE list_remove(_, _)
\* list.remove(x): drops the first occurrence
list_remove(list, x) ==
    IF list = <<>> THEN <<>>
    ELSE IF Head(list) = x THEN Tail(list)
    ELSE <<Head(list)>> \o list_remove(Tail(list), x)

\* lines 245-246
leave_track(ur, user_id, conversation_id) ==
    IF user_id \in DOMAIN ur
       /\ \E i \in DOMAIN ur[user_id] : ur[user_id][i] = conversation_id
    THEN [ur EXCEPT ![user_id] = list_remove(@, conversation_id)]
    ELSE ur

LeaveConversation(sid, data) ==
    /\ Reachable(sid)
    /\ UNCHANGED <<crypto, loop, uuid_imported, transport, connected_users, store>>
    /\ LET conversation_id == Get(data, "conversation_id", None) IN
       IF sid \notin DOMAIN connected_users \/ Falsy(conversation_id)
       THEN UNCHANGED <<rooms, user_rooms>>
       ELSE /\ rooms' = leave_room(rooms, sid, conversation_id)
            /\ user_rooms' = leave_track(user_rooms, connected_users[sid].user_id,
                                         conversation_id)
    /\ last' = Result("leave_conversation", sid, data, <<>>)

(***************************************************************************)
(* The messages table (models.py, class Message)                           *)
(***************************************************************************)
Row(id, conv, patient, user, sender, content, encrypted, read, att_url, att_type, created) ==
    [id |-> id, conversation_id |-> conv, patient_id |-> patient, user_id |-> user,
     sender_type |-> sender, content |-> content, encrypted |-> encrypted,
     read |-> read, read_at |-> IF read THEN Now ELSE None,
     attachment_url |-> att_url, attachment_type |-> att_type, created_at |-> created]

\* nullable=False columns of Message, and conversation_id being a UUID
RowAccepted(m) ==
    /\ m.conversation_id \in Convs
    /\ m.patient_id # None
    /\ m.sender_type # None
    /\ m.content # None

RowsOf(st, conversation_id) ==
    {i \in DOMAIN st : st[i].conversation_id = conversation_id}

\* server_default=func.now(): later than every row stored so far
NextCreated(st) ==
    IF st = <<>> THEN 1
    ELSE 1 + (CHOOSE t \in {st[i].created_at : i \in DOMAIN st} :
                 \A i \in DOMAIN st : st[i].created_at <= t)

\* mutant: the row is created as read
save_row_read(st, message_data) ==
    Row(Len(st) + 1,
        Get(message_data, "conversation_id", None),
        Get(message_data, "patient_id", None),
        Get(message_data, "user_id", None),
        Get(message_data, "sender_type", None),
        Get(message_data, "content", None),
        Get(message_data, "encrypted", TRUE),
        TRUE,
        Get(message_data, "attachment_url", None),
        Get(message_data, "attachment_type", None),
        NextCreated(st))

\* save_message: the Message built at lines 69-78, with the column defaults
save_row(st, message_data) ==
    Row(Len(st) + 1,
        Get(message_data, "conversation_id", None),
        Get(message_data, "patient_id", None),
        Get(message_data, "user_id", None),
        Get(message_data, "sender_type", None),
        Get(message_data, "content", None),
        Get(message_data, "encrypted", TRUE),
        FALSE,
        Get(message_data, "attachment_url", None),
        Get(message_data, "attachment_type", None),
        NextCreated(st))

\* mutant: the table is rewritten with the new row alone
save_message_replacing(st, message_data, db_ok) ==
    IF db_ok /\ RowAccepted(save_row(st, message_data))
    THEN <<save_row(st, message_data)>>
    ELSE st

\* save_message: session.add + commit; any exception is logged and dropped
save_message(st, message_data, db_ok) ==
    IF db_ok /\ RowAccepted(save_row(st, message_data))
    THEN Append(st, save_row(st, message_data))
    ELSE st

\* get_conversation_metadata(...).get('patient_id'): the patient of some row of
\* the conversation (LIMIT 1 without ORDER BY), None when there is none or the
\* query failed
MetadataPatients(st, conversation_id, db_ok) ==
    IF db_ok /\ RowsOf(st, conversation_id) # {}
    THEN {st[i].patient_id : i \in RowsOf(st, conversation_id)}
    ELSE {None}

(***************************************************************************)
(* send_message(sid, data)                                                 *)
(***************************************************************************)
SendPayloads ==
    {[keys |-> k, conversation_id |-> None, content |-> None,
      encrypted |-> None, attachment_url |-> None]
        : k \in {{}}} \cup
    {[keys |-> {"conversation_id"}, conversation_id |-> c, content |-> None,
      encrypted |-> None, attachment_url |-> None] : c \in {"c1"}} \cup
    {[keys |-> {"content"}, conversation_id |-> None, content |-> t,
      encrypted |-> None, attachment_url |-> None] : t \in Contents} \cup
    {[keys |-> {"conversation_id", "content"}, conversation_id |-> c, content |-> t,
      encrypted |-> None, attachment_url |-> None] : c \in Convs, t \in Contents} \cup
    {[keys |-> {"conversation_id", "content", "encrypted", "attachment_url"},
      conversation_id |-> c, content |-> t,
      encrypted |-> FALSE, attachment_url |-> "file.png"] : c \in {"c1"}, t \in Contents}

\* mutant: the staff branch does not record the sender
message_data_anonymous(data, user_id, role, uuid, patient_id) ==
    [keys |-> {"id", "conversation_id", "content", "sender_type", "encrypted",
               "timestamp", "user_id", "patient_id"}
              \cup (IF Has(data, "attachment_url")
                    THEN {"attachment_url", "attachment_type"} ELSE {}),
     id |-> uuid,
     conversation_id |-> data.conversation_id,
     content |-> data.content,
     sender_type |-> role,
     encrypted |-> Get(data, "encrypted", TRUE),
     timestamp |-> Now,
     user_id |-> None,
     patient_id |-> IF role = "staff" THEN patient_id ELSE user_id,
     attachment_url |-> Get(data, "attachment_url", None),
     attachment_type |-> IF Has(data, "attachment_url") THEN "file" ELSE None]

\* lines 275-297: the dict that is broadcast and handed to save_message
message_data(data, user_id, role, uuid, patient_id) ==
    [keys |-> {"id", "conversation_id", "content", "sender_type", "encrypted",
               "timestamp", "user_id", "patient_id"}
              \cup (IF Has(data, "attachment_url")
                    THEN {"attachment_url", "attachment_type"} ELSE {}),
     id |-> uuid,
     conversation_id |-> data.conversation_id,
     content |-> data.content,
     sender_type |-> role,
     encrypted |-> Get(data, "encrypted", TRUE),
     timestamp |-> Now,
     user_id |-> IF role = "staff" THEN user_id ELSE None,
     patient_id |-> IF role = "staff" THEN patient_id ELSE user_id,
     attachment_url |-> Get(data, "attachment_url", None),
     attachment_type |-> IF Has(data, "attachment_url") THEN "file" ELSE None]

\* mutant: any() in place of all()
send_valid_any(data) == Has(data, "conversation_id") \/ Has(data, "content")

\* lines 265-266
send_valid(data) == Has(data, "conversation_id") /\ Has(data, "content")

\* mutant: the message is saved first and broadcast afterwards
send_order_save_first == <<"save_message", "new_message">>

\* lines 299-303: the broadcast, then the call of save_message
send_order == <<"new_message", "save_message">>

\* line 300
new_message_emit(rm, md) == EmitRoom(rm, md.conversation_id, {}, "new_message", md)

SendMessage(sid, data) ==
    /\ Reachable(sid)
    /\ UNCHANGED <<crypto, loop, uuid_imported, transport, rooms, connected_users, user_rooms>>
    /\ IF sid \notin DOMAIN connected_users
       THEN /\ store' = store
            /\ last' = Result("send_message", sid, data,
                              <<ErrorTo(transport, sid, "not authenticated")>>)
       ELSE IF ~send_valid(data)
       THEN /\ store' = store
            /\ last' = Result("send_message", sid, data,
                              <<ErrorTo(transport, sid, "incomplete data")>>)
       ELSE IF ~uuid_imported
       THEN \* NameError at line 276 leaves the handler
            /\ store' = store
            /\ last' = [Result("send_message", sid, data, <<>>) EXCEPT !.fault = TRUE]
       ELSE \E uuid \in Uuids, meta_ok \in BOOLEAN, save_ok \in BOOLEAN :
            \E patient_id \in (IF connected_users[sid].role = "staff"
                               THEN MetadataPatients(store, data.conversation_id, meta_ok)
                               ELSE {None}) :
              LET md == message_data(data, connected_users[sid].user_id,
                                     connected_users[sid].role, uuid, patient_id)
              IN  /\ Len(store) < MaxStore
                  /\ store' = save_message(store, md, save_ok)
                  /\ last' = [Result("send_message", sid, data,
                                <<new_message_emit(rooms, md)>>)
                              EXCEPT !.saved = <<md>>,
                                     !.steps = send_order,
                                     !.db_down = ~(meta_ok /\ save_ok),
                                     !.db_failed = (store' = store)]

(***************************************************************************)
(* mark_as_read(sid, data)                                                 *)
(***************************************************************************)
\* id lists in ascending order over the id of the first row and an id no
\* row has
UnknownId == MaxStore + 1
IdLists ==
    {ids \in UNION {[1 .. n -> {1, UnknownId}] : n \in 0 .. MaxIds} :
        \A i \in DOMAIN ids : \A j \in DOMAIN ids : i < j => ids[i] < ids[j]}

MarkPayloads ==
    {[keys |-> {"message_ids"}, message_ids |-> ids, conversation_id |-> None]
        : ids \in IdLists} \cup
    {[keys |-> {"message_ids", "conversation_id"}, message_ids |-> ids,
      conversation_id |-> c] : ids \in IdLists, c \in {"c1"}} \cup
    {[keys |-> {"conversation_id"}, message_ids |-> <<>>, conversation_id |-> c]
        : c \in {"c1"}} \cup
    {[keys |-> {"message_ids", "conversation_id"}, message_ids |-> <<u>>,
      conversation_id |-> c] : u \in Uuids, c \in {"c1"}}

\* mutant: the WHERE clause on the id is lost and every row is marked
mark_rows_all(st, message_ids) ==
    [i \in DOMAIN st |-> [st[i] EXCEPT !.read = TRUE, !.read_at = Now]]

\* lines 329-336: every row whose id is in the list gets read and read_at
mark_rows(st, message_ids) ==
    [i \in DOMAIN st |->
        IF \E k \in DOMAIN message_ids : message_ids[k] = st[i].id
        THEN [st[i] EXCEPT !.read = TRUE, !.read_at = Now]
        ELSE st[i]]

\* mutant: every update is committed on its own, the first one got through
mark_failed_partial(st, message_ids) == mark_rows(st, <<message_ids[1]>>)

\* an exception before session.commit() returns (lines 331, 338) leaves the
\* `async with` block: the session is closed with nothing committed
mark_failed(st, message_ids) == st

\* mutant: skip_sid is not passed
messages_read_emit_all(rm, sid, user_id, conversation_id, message_ids) ==
    EmitRoom(rm, conversation_id, {}, "messages_read",
             [message_ids |-> message_ids, user_id |-> user_id, timestamp |-> Now])

\* lines 343-347
messages_read_emit(rm, sid, user_id, conversation_id, message_ids) ==
    EmitRoom(rm, conversation_id, {sid}, "messages_read",
             [message_ids |-> message_ids, user_id |-> user_id, timestamp |-> Now])

MarkAsRead(sid, data) ==
    /\ Reachable(sid)
    /\ UNCHANGED <<crypto, loop, uuid_imported, transport, rooms, connected_users, user_rooms>>
    /\ IF sid \notin DOMAIN connected_users
       THEN /\ store' = store
            /\ last' = Result("mark_as_read", sid, data,
                              <<ErrorTo(transport, sid, "not authenticated")>>)
       ELSE LET message_ids == Get(data, "message_ids", <<>>)
                conversation_id == Get(data, "conversation_id", None)
            IN  IF message_ids = <<>>
                THEN /\ store' = store
                     /\ last' = Result("mark_as_read", sid, data,
                                   <<ErrorTo(transport, sid, "no message ids")>>)
                ELSE \E db_ok \in BOOLEAN :
                     IF ~db_ok
                     THEN /\ store' = mark_failed(store, message_ids)
                          /\ last' = [Result("mark_as_read", sid, data,
                                        <<ErrorTo(transport, sid, "storage error")>>)
                                      EXCEPT !.db_failed = TRUE, !.db_down = TRUE]
                     ELSE /\ store' = mark_rows(store, message_ids)
                          /\ last' = Result("mark_as_read", sid, data,
                               IF Falsy(conversation_id) THEN <<>>
                               ELSE <<messages_read_emit(rooms, sid,
                                        connected_users[sid].user_id,
                                        conversation_id, message_ids)>>)

(***************************************************************************)
(* user_typing(sid, data)                                                  *)
(***************************************************************************)
TypingPayloads ==
    {[keys |-> {}, conversation_id |-> None]} \cup
    {[keys |-> {"conversation_id"}, conversation_id |-> c] : c \in Convs}

\* mutant: the sender is not skipped
typing_emit_all(rm, sid, user_id, conversation_id) ==
    EmitRoom(rm, conversation_id, {}, "typing",
             [user_id |-> user_id, conversation_id |-> conversation_id,
              timestamp |-> Now])

\* lines 372-376
typing_emit(rm, sid, user_id, conversation_id) ==
    EmitRoom(rm, conversation_id, {sid}, "typing",
             [user_id |-> user_id, conversation_id |-> conversation_id,
              timestamp |-> Now])

\* mutant: the sender is entered into the room it types to
UserTyping_joining(sid, data) ==
    /\ Reachable(sid)
    /\ UNCHANGED <<crypto, loop, uuid_imported, transport, connected_users, user_rooms, store>>
    /\ rooms' = IF Has(data, "conversation_id")
                THEN enter_room(rooms, sid, data.conversation_id) ELSE rooms
    /\ last' = Result("user_typing", sid, data,
         IF sid \notin DOMAIN connected_users \/ ~Has(data, "conversation_id")
         THEN <<>>
         ELSE <<typing_emit(rooms, sid, connected_users[sid].user_id,
                            data.conversation_id)>>)

UserTyping(sid, data) ==
    /\ Reachable(sid)
    /\ UNCHANGED <<crypto, loop, uuid_imported, transport, rooms, connected_users, user_rooms, store>>
    /\ last' = Result("user_typing", sid, data,
         IF sid \notin DOMAIN connected_users \/ ~Has(data, "conversation_id")
         THEN <<>>
         ELSE <<typing_emit(rooms, sid, connected_users[sid].user_id,
                            data.conversation_id)>>)

(***************************************************************************)
(* The messages table when the server starts: rows the schema admits       *)
(***************************************************************************)
SeedRow(i, conv, patient, sender, read) ==
    Row(i, conv, patient, IF sender = "staff" THEN TokenUserId ELSE None,
        sender, "hello", TRUE, read, None, None, i)

\* rows of either author and read state, for the unread counts
SeedStores(n) ==
    UNION {{[i \in 1 .. k |-> SeedRow(i, f[i][1], "p1", f[i][2], f[i][3])]
              : f \in [1 .. k -> Convs \X {"patient", "staff"} \X BOOLEAN]}
           : k \in 0 .. n}

\* rows of any conversation whose creation times are all different
\* (coarse = FALSE) or equal in pairs (coarse = TRUE), for the history
HistRow(i, conv, coarse) ==
    [SeedRow(i, conv, "p1", "patient", FALSE)
        EXCEPT !.created_at = IF coarse THEN (i + 1) \div 2 ELSE i]

HistoryStores(n) ==
    UNION {{[i \in 1 .. k |-> HistRow(i, f[i], coarse)]
              : f \in [1 .. k -> Convs], coarse \in BOOLEAN}
           : k \in 0 .. n}

(***************************************************************************)
(* get_conversation_history(sid, data)                                     *)
(***************************************************************************)
DefaultLimit == 50
DefaultOffset == 0

HistoryPayloads ==
    {[keys |-> {}, conversation_id |-> None, limit |-> None, offset |-> None]} \cup
    {[keys |-> {"conversation_id"}, conversation_id |-> c, limit |-> None,
      offset |-> None] : c \in Convs} \cup
    {[keys |-> {"conversation_id", "limit"}, conversation_id |-> c, limit |-> l,
      offset |-> None] : c \in {"c1"}, l \in {1, 2, 10}} \cup
    {[keys |-> {"conversation_id", "limit", "offset"}, conversation_id |-> c,
      limit |-> l, offset |-> o] : c \in {"c1"}, l \in {1, 2, 10}, o \in {1, 3}}

\* WHERE Message.conversation_id == conversation_id
history_where(st, conversation_id) == RowsOf(st, conversation_id)

\* mutant: ascending order
RECURSIVE history_order_asc(_, _)
history_order_asc(st, S) ==
    IF S = {} THEN {<<>>}
    ELSE UNION {{<<i>> \o rest : rest \in history_order_asc(st, S \ {i})}
                  : i \in {j \in S : \A k \in S : st[j].created_at <= st[k].created_at}}

\* ORDER BY created_at DESC: the orders of the rows `S` the database may
\* produce, rows of equal creation time in either order
RECURSIVE history_order(_, _)
history_order(st, S) ==
    IF S = {} THEN {<<>>}
    ELSE UNION {{<<i>> \o rest : rest \in history_order(st, S \ {i})}
                  : i \in {j \in S : \A k \in S : st[k].created_at <= st[j].created_at}}

\* LIMIT limit OFFSET offset
history_page(ordered, limit, offset) ==
    SubSeq(ordered, offset + 1,
           IF offset + limit < Len(ordered) THEN offset + limit ELSE Len(ordered))

\* lines 415-428: the dict built for each row
format_message(msg) ==
    [id |-> msg.id, conversation_id |-> msg.conversation_id,
     patient_id |-> msg.patient_id, user_id |-> msg.user_id,
     sender_type |-> msg.sender_type, content |-> msg.content,
     encrypted |-> msg.encrypted, read |-> msg.read, read_at |-> msg.read_at,
     attachment_url |-> msg.attachment_url, attachment_type |-> msg.attachment_type,
     timestamp |-> msg.created_at]

\* mutant: set whenever anything was returned
has_more_nonempty(count, limit) == count > 0

\* line 435
has_more(count, limit) == count = limit

GetConversationHistory(sid, data) ==
    /\ Reachable(sid)
    /\ UNCHANGED <<crypto, loop, uuid_imported, transport, rooms, connected_users, user_rooms, store>>
    /\ IF sid \notin DOMAIN connected_users
       THEN last' = Result("get_conversation_history", sid, data,
                           <<ErrorTo(transport, sid, "not authenticated")>>)
       ELSE IF Falsy(Get(data, "conversation_id", None))
       THEN last' = Result("get_conversation_history", sid, data,
                           <<ErrorTo(transport, sid, "no conversation id")>>)
       ELSE \E db_ok \in BOOLEAN :
            IF ~db_ok
            THEN last' = [Result("get_conversation_history", sid, data,
                             <<ErrorTo(transport, sid, "storage error")>>)
                          EXCEPT !.db_failed = TRUE, !.db_down = TRUE]
            ELSE \E ordered \in history_order(store,
                                   history_where(store, data.conversation_id)) :
                 LET limit == Get(data, "limit", DefaultLimit)
                     offset == Get(data, "offset", DefaultOffset)
                     messages == history_page(ordered, limit, offset)
                     message_list == [k \in DOMAIN messages |->
                                         format_message(store[messages[k]])]
                 IN  last' = Result("get_conversation_history", sid, data,
                        <<EmitSid(transport, sid, "conversation_history",
                            [conversation_id |-> data.conversation_id,
                             messages |-> message_list,
                             total |-> Len(message_list),
                             has_more |-> has_more(Len(message_list), limit)])>>)

(***************************************************************************)
(* get_unread_count(sid, data)                                             *)
(***************************************************************************)
\* the module imports select but not func (lines 16-18): func.count() at
\* lines 475, 495 and 506 raises NameError inside the try block
FuncImported == FALSE

\* lines 465-470: the sender type whose messages are counted
unread_condition(role) == IF role = "staff" THEN "patient" ELSE "staff"

\* lines 475-479
unread_in(st, role, conversation_id) ==
    Cardinality({i \in DOMAIN st : /\ st[i].conversation_id = conversation_id
                                   /\ st[i].sender_type = unread_condition(role)
                                   /\ st[i].read = FALSE})

\* lines 491-513: rows counted per conversation
unread_rows(st, role, user_id) ==
    {i \in DOMAIN st : /\ st[i].sender_type = unread_condition(role)
                       /\ st[i].read = FALSE
                       /\ (role # "staff" => st[i].patient_id = user_id)}

unread_by_conversation(st, role, user_id) ==
    [c \in {st[i].conversation_id : i \in unread_rows(st, role, user_id)} |->
        Cardinality({i \in unread_rows(st, role, user_id) : st[i].conversation_id = c})]

RECURSIVE SumOver(_, _)
SumOver(f, S) ==
    IF S = {} THEN 0
    ELSE LET x == CHOOSE x \in S : TRUE IN f[x] + SumOver(f, S \ {x})

UnreadPayloads ==
    {[keys |-> {}, conversation_id |-> None]} \cup
    {[keys |-> {"conversation_id"}, conversation_id |-> c] : c \in Convs}

GetUnreadCount(sid, data) ==
    /\ Reachable(sid)
    /\ UNCHANGED <<crypto, loop, uuid_imported, transport, rooms, connected_users, user_rooms, store>>
    /\ IF sid \notin DOMAIN connected_users
       THEN last' = Result("get_unread_count", sid, data,
                           <<ErrorTo(transport, sid, "not authenticated")>>)
       ELSE LET user_id == connected_users[sid].user_id
                role == connected_users[sid].role
                conversation_id == Get(data, "conversation_id", None)
            IN  \E db_ok \in BOOLEAN :
                IF ~FuncImported
                THEN \* raised while the query is built, before storage is asked
                     last' = [Result("get_unread_count", sid, data,
                                     <<ErrorTo(transport, sid, "NameError")>>)
                              EXCEPT !.db_down = ~db_ok]
                ELSE IF ~db_ok
                     THEN last' = [Result("get_unread_count", sid, data,
                                      <<ErrorTo(transport, sid, "storage error")>>)
                                   EXCEPT !.db_failed = TRUE, !.db_down = TRUE]
                     ELSE IF ~Falsy(conversation_id)
                     THEN last' = Result("get_unread_count", sid, data,
                             <<EmitSid(transport, sid, "unread_count",
                                 [conversation_id |-> conversation_id,
                                  count |-> unread_in(store, role, conversation_id)])>>)
                     ELSE LET counts == unread_by_conversation(store, role, user_id)
                          IN  last' = Result("get_unread_count", sid, data,
                                 <<EmitSid(transport, sid, "unread_counts",
                                     [total |-> SumOver(counts, DOMAIN counts),
                                      by_conversation |-> counts])>>)

(***************************************************************************)
(* chat_security.py, class ChatEncryption, over PyNaCl's Box.              *)
(*                                                                         *)
(* A byte string is a record [kind, key, val, len]: what the bytes are,    *)
(* the secret they are sealed under (sealed boxes only), their content,    *)
(* and their length in bytes.  A Base64 text is a record                   *)
(* [bytes, spare, junk, padded]: the bytes it decodes to, the value of the *)
(* bits of the last character that carry no data, the number of            *)
(* characters outside the alphabet, and whether its padding is complete.   *)
(***************************************************************************)
KeyOwners == {"A", "B", "C"}
\* the empty message, a one-byte message, and "cafe" with an acute accent
\* (4 characters, 5 bytes)
Plaintexts == {"", "k", "cafe"}
Nonces == {"n1", "n2"}

Bytes(kind, key, val, len) == [kind |-> kind, key |-> key, val |-> val, len |-> len]

Success(value) == [ok |-> TRUE, value |-> value]
Failure(error) == [ok |-> FALSE, value |-> error]

\* base64.b64encode
b64encode(b) == [bytes |-> b, spare |-> 0, junk |-> 0, padded |-> TRUE]

\* base64.b64decode(s) with validate=False: characters outside the alphabet
\* are discarded and the spare bits of the last character are dropped;
\* incomplete padding raises binascii.Error
b64decode(s) == IF s.padded THEN Success(s.bytes) ELSE Failure("binascii.Error")

\* str.encode('utf-8') and bytes.decode('utf-8')
utf8_len(text) == IF text = "" THEN 0 ELSE IF text = "k" THEN 1 ELSE 5
encode_utf8(text) == Bytes("utf8", {}, <<text>>, utf8_len(text))
decode_utf8(b) == b.val[1]

\* PrivateKey.generate().encode() and its public_key.encode(): 32 bytes each
private_key_bytes(k) == Bytes("private", {}, <<k>>, 32)
public_key_bytes(k) == Bytes("public", {}, <<k>>, 32)

\* nacl.utils.random(Box.NONCE_SIZE)
random_nonce(n) == Bytes("nonce", {}, <<n>>, 24)

\* lines 32-41
generate_keypair(k) == <<b64encode(private_key_bytes(k)), b64encode(public_key_bytes(k))>>

\* mutant: a secret that depends on which side holds the private key
Box_one_sided(private, public) == [shared |-> {private.val[1]}]

\* Box(private, public): the shared secret of the private key of one pair
\* and the public key of another; Curve25519 gives (a, B) and (b, A) the
\* same secret
Box(private, public) == [shared |-> {private.val[1], public.val[1]}]

\* box.encrypt(plaintext, nonce): an EncryptedMessage with its nonce and its
\* ciphertext, the plaintext sealed under the secret and the nonce with a
\* 16-byte authenticator
box_encrypt(box, plaintext, nonce) ==
    [nonce |-> nonce,
     ciphertext |-> Bytes("sealed", box.shared, <<nonce.val[1], plaintext.val[1]>>,
                          16 + plaintext.len)]

\* box.decrypt(ciphertext, nonce): opens only what was sealed under the same
\* secret and nonce, CryptoError otherwise
box_decrypt(box, ciphertext, nonce) ==
    IF /\ ciphertext.kind = "sealed"
       /\ ciphertext.key = box.shared
       /\ nonce.kind = "nonce"
       /\ ciphertext.val[1] = nonce.val[1]
    THEN Success(Bytes("utf8", {}, <<ciphertext.val[2]>>, ciphertext.len - 16))
    ELSE Failure("CryptoError")

\* lines 60-88; `n` is the draw of nacl.utils.random
encrypt_message(message, sender_private_key_b64, recipient_public_key_b64, n) ==
    LET sender_private_key == b64decode(sender_private_key_b64)
        recipient_public_key == b64decode(recipient_public_key_b64)
    IN  IF ~sender_private_key.ok THEN sender_private_key
        ELSE IF ~recipient_public_key.ok THEN recipient_public_key
        ELSE LET box == Box(sender_private_key.value, recipient_public_key.value)
                 nonce == random_nonce(n)
                 encrypted == box_encrypt(box, encode_utf8(message), nonce)
             IN  Success([encrypted |-> b64encode(encrypted.ciphertext),
                          nonce |-> b64encode(nonce)])

\* lines 107-130
decrypt_message(encrypted_data, recipient_private_key_b64, sender_public_key_b64) ==
    LET recipient_private_key == b64decode(recipient_private_key_b64)
        sender_public_key == b64decode(sender_public_key_b64)
        encrypted == b64decode(encrypted_data.encrypted)
        nonce == b64decode(encrypted_data.nonce)
    IN  IF ~recipient_private_key.ok THEN recipient_private_key
        ELSE IF ~sender_public_key.ok THEN sender_public_key
        ELSE IF ~encrypted.ok THEN encrypted
        ELSE IF ~nonce.ok THEN nonce
        ELSE LET box == Box(recipient_private_key.value, sender_public_key.value)
                 decrypted == box_decrypt(box, encrypted.value, nonce.value)
             IN  IF decrypted.ok THEN Success(decode_utf8(decrypted.value))
                 ELSE decrypted

\* the texts a caller may hand to decrypt_message in place of a produced
\* Base64 text `s`: the text itself, the text with a character outside the
\* alphabet added, the text with its padding cut, and, where the last
\* character has spare bits, the text with one of them flipped
B64Variants(s) ==
    {s, [s EXCEPT !.junk = 1], [s EXCEPT !.padded = FALSE]} \cup
    (IF s.bytes.len % 3 # 0 THEN {[s EXCEPT !.spare = 1]} ELSE {})

\* the bytes with one bit flipped
Flipped(b) == [b EXCEPT !.kind = "flipped"]

DecryptInputs(envelope) ==
    {[encrypted |-> e, nonce |-> n] :
        e \in B64Variants(envelope.encrypted)
              \cup {b64encode(Flipped(envelope.encrypted.bytes))},
        n \in B64Variants(envelope.nonce)
              \cup {b64encode(random_nonce(x)) : x \in Nonces}}

(***************************************************************************)
(* chat_security.py, class KeyManager.  A key text is a record             *)
(* [kind, owner]; the directory maps a participant to the key text held    *)
(* for it.                                                                 *)
(***************************************************************************)
Participants == {"user_123", "patient_p1"}
KeyText(kind, owner) == [kind |-> kind, owner |-> owner]

\* what a caller may pass as `public_key`: the participant's public key, or
\* by mistake its private key
KeyTexts == {KeyText(kind, p) : kind \in {"public", "private"}, p \in Participants}

\* line 212 and line 227: f"..._public_key_placeholder"
get_public_key(id) == KeyText("public_placeholder", id)

\* lines 239-242: os.getenv("SYSTEM_PRIVATE_KEY", ...), os.getenv("SYSTEM_PUBLIC_KEY", ...)
get_system_keypair == <<KeyText("private", "system"), KeyText("public", "system")>>

\* mutant: the text passed in is kept
store_public_key_kept(directory, id, public_key) ==
    [p \in DOMAIN directory \cup {id} |-> IF p = id THEN public_key ELSE directory[p]]

\* lines 255 and 268: the call is logged, nothing is kept
store_public_key(directory, id, public_key) == directory

chat_vars == <<uuid_imported, transport, rooms, connected_users, user_rooms, store, last,
              loop>>

CryptoIdle == [op |-> "idle", directory |-> <<>>, returned |-> <<>>]

EncryptMessage(message, a, b, n) ==
    /\ crypto' = [op |-> "encrypt_message", directory |-> crypto.directory,
                  returned |-> <<>>,
                  message |-> message, sender |-> a, recipient |-> b,
                  envelope |-> encrypt_message(message, generate_keypair(a)[1],
                                               generate_keypair(b)[2], n).value]
    /\ UNCHANGED chat_vars

\* a call with the keys of `r` and `s` on an envelope encrypt_message
\* produced, as produced or altered
DecryptMessage(r, s) ==
    /\ crypto.op \in {"encrypt_message", "decrypt_message"}
    /\ \E encrypted_data \in DecryptInputs(crypto.envelope) :
         crypto' = [op |-> "decrypt_message", directory |-> crypto.directory,
                    returned |-> <<>>,
                    message |-> crypto.message, sender |-> crypto.sender,
                    recipient |-> crypto.recipient, envelope |-> crypto.envelope,
                    given |-> encrypted_data, private |-> r, public |-> s,
                    result |-> decrypt_message(encrypted_data, generate_keypair(r)[1],
                                               generate_keypair(s)[2])]
    /\ UNCHANGED chat_vars

StorePublicKey(op, id, public_key) ==
    /\ crypto' = [op |-> op, id |-> id, public_key |-> public_key,
                  directory |-> store_public_key(crypto.directory, id, public_key),
                  returned |-> <<>>]
    /\ UNCHANGED chat_vars

GetPublicKey(op, id) ==
    /\ crypto' = [op |-> op, id |-> id, directory |-> crypto.directory,
                  returned |-> <<get_public_key(id)>>]
    /\ UNCHANGED chat_vars

GetSystemKeypair ==
    /\ crypto' = [op |-> "get_system_keypair", directory |-> crypto.directory,
                  returned |-> get_system_keypair]
    /\ UNCHANGED chat_vars

InitCrypto ==
    /\ uuid_imported = TRUE
    /\ transport = [s \in Sids |-> "idle"]
    /\ rooms = [c \in Convs |-> {}]
    /\ connected_users = <<>>
    /\ user_rooms = <<>>
    /\ store = <<>>
    /\ last = [op |-> "init", sid |-> None, data |-> NoData, emits |-> <<>>,
               fault |-> FALSE, db_failed |-> FALSE, db_down |-> FALSE,
               saved |-> <<>>, steps |-> <<>>, writes |-> {}]
    /\ crypto = CryptoIdle
    /\ loop = LoopIdle

NextCrypto ==
    \/ \E message \in Plaintexts, a \in KeyOwners, b \in KeyOwners, n \in Nonces :
          EncryptMessage(message, a, b, n)
    \/ \E r \in KeyOwners, s \in KeyOwners : DecryptMessage(r, s)
    \/ \E id \in Participants, public_key \in KeyTexts :
          StorePublicKey("store_user_public_key", id, public_key)
    \/ \E id \in Participants, public_key \in KeyTexts :
          StorePublicKey("store_patient_public_key", id, public_key)
    \/ \E id \in Participants : GetPublicKey("get_user_public_key", id)
    \/ \E id \in Participants : GetPublicKey("get_patient_public_key", id)
    \/ GetSystemKeypair

SpecCrypto == InitCrypto /\ [][NextCrypto]_vars

Init ==
    /\ uuid_imported \in BOOLEAN
    /\ transport = [s \in Sids |-> "idle"]
    /\ rooms = [c \in Convs |-> {}]
    /\ connected_users = <<>>
    /\ user_rooms = <<>>
    /\ store \in {<<>>} \cup {<<SeedRow(1, c, "p1", "patient", FALSE)>> : c \in Convs}
    /\ last = [op |-> "init", sid |-> None, data |-> NoData, emits |-> <<>>,
               fault |-> FALSE, db_failed |-> FALSE, db_down |-> FALSE,
               saved |-> <<>>, steps |-> <<>>, writes |-> {}]
    /\ crypto = CryptoIdle
    /\ loop = LoopIdle

Next ==
    \/ \E sid \in Sids, environ \in Environs : Connect(sid, environ)
    \/ \E sid \in Sids : Disconnect(sid)
    \/ \E sid \in Sids, data \in JoinPayloads : JoinConversation(sid, data)
    \/ \E sid \in Sids, data \in TypingPayloads : LeaveConversation(sid, data)
    \/ \E sid \in Sids, data \in SendPayloads : SendMessage(sid, data)
    \/ \E sid \in Sids, data \in MarkPayloads : MarkAsRead(sid, data)
    \/ \E sid \in Sids, data \in TypingPayloads : UserTyping(sid, data)

Spec == Init /\ [][Next]_vars

(***************************************************************************)
(* The read-only queries, over the tables the server may find at start     *)
(***************************************************************************)
InitQuery ==
    /\ uuid_imported = TRUE
    /\ transport = [s \in Sids |-> "idle"]
    /\ rooms = [c \in Convs |-> {}]
    /\ connected_users = <<>>
    /\ user_rooms = <<>>
    /\ store \in HistoryStores(HistRows) \cup SeedStores(SeedRows)
    /\ last = [op |-> "init", sid |-> None, data |-> NoData, emits |-> <<>>,
               fault |-> FALSE, db_failed |-> FALSE, db_down |-> FALSE,
               saved |-> <<>>, steps |-> <<>>, writes |-> {}]
    /\ crypto = CryptoIdle
    /\ loop = LoopIdle

NextQuery ==
    \/ \E sid \in Sids, environ \in Environs : Connect(sid, environ)
    \/ \E sid \in Sids : Disconnect(sid)
    \/ \E sid \in Sids, data \in HistoryPayloads : GetConversationHistory(sid, data)
    \/ \E sid \in Sids, data \in UnreadPayloads : GetUnreadCount(sid, data)

SpecQuery == InitQuery /\ [][NextQuery]_vars

(***************************************************************************)
(* Every handler together, the queries with their default page             *)
(***************************************************************************)
NextAll ==
    \/ Next
    \/ \E sid \in Sids :
          GetConversationHistory(sid, [keys |-> {"conversation_id"},
                                       conversation_id |-> "c1",
                                       limit |-> None, offset |-> None])
    \/ \E sid \in Sids, data \in {d \in UnreadPayloads : d.keys = {}} :
          GetUnreadCount(sid, data)

SpecAll == Init /\ [][NextAll]_vars

(***************************************************************************)
(* Handlers as tasks of the event loop.  sio is created without            *)
(* async_handlers=False (lines 33-37), so the server starts the handler    *)
(* of every received event as a task of its own; a task runs until it      *)
(* awaits and another task may run before it resumes.  The disconnect      *)
(* handler is awaited by the server, which removes the session from its    *)
(* rooms when the handler has returned.  No task is cancelled.             *)
(*                                                                         *)
(* loop.tasks holds the tasks in the order their events were received,     *)
(* loop.log the room broadcasts, the stored messages and the finished      *)
(* disconnects in the order they happened, loop.inbox the broadcasts       *)
(* queued for each connection (as positions in the log).  Storage is       *)
(* available throughout and the conversation holds a message of its        *)
(* patient.                                                                *)
(***************************************************************************)
MaxTasks == 3       \* events the server receives

TaskConv == "c1"
TaskData == [keys |-> {"conversation_id", "content"}, conversation_id |-> TaskConv,
             content |-> "hello", encrypted |-> None, attachment_url |-> None]
TaskKinds == {"join_conversation", "leave_conversation", "send_message", "user_typing"}

Task(kind, sid, pc) ==
    [kind |-> kind, sid |-> sid, data |-> TaskData, pc |-> pc,
     user_id |-> None, role |-> None, md |-> NoData, room |-> None, idx |-> 0,
     list |-> <<>>]

Finished(t) == t.pc \in {"done", "fault"}

\* the loop starts tasks in the order they were created; a task that waits
\* at an await resumes whenever what it waits for is there
Runnable(lp, i) ==
    /\ ~Finished(lp.tasks[i])
    /\ lp.tasks[i].pc = "start" => \A k \in 1 .. (i - 1) : lp.tasks[k].pc # "start"

SetTask(lp, i, t) == [lp EXCEPT !.tasks[i] = t]

\* mutant: the newest packet goes to the front of the queue
enqueue_front(queue, packet) == <<packet>> \o queue

\* the packets for one connection leave in the order they were queued
enqueue(queue, packet) == Append(queue, packet)

\* a room emit reaches the members whose session is open, except skip_sid
recipients(rm, tr, room, skip) ==
    {s \in Members(rm, room) \ skip : tr[s] = "connected"}

\* sio.emit(event, data, room=..., skip_sid=...) called by task i
broadcast(lp, i, event, room, to) ==
    [lp EXCEPT
        !.log = Append(@, [what |-> "broadcast", task |-> i, event |-> event,
                           room |-> room, to |-> to]),
        !.inbox = [s \in Sids |->
                     IF s \in to THEN enqueue(lp.inbox[s], Len(lp.log) + 1)
                     ELSE lp.inbox[s]]]

\* a row reached the messages table ("persist"); the disconnect handler
\* returned ("disconnect")
logged(lp, what, i, room) ==
    [lp EXCEPT !.log = Append(@, [what |-> what, task |-> i, event |-> None,
                                  room |-> room, to |-> {}])]

\* an event of an open session arrives: its handler is started as a task
Receive(sid, kind) ==
    /\ transport[sid] = "connected"
    /\ Len(loop.tasks) < MaxTasks
    /\ loop' = [loop EXCEPT !.tasks = Append(@, Task(kind, sid, "start"))]
    /\ UNCHANGED <<crypto, uuid_imported, transport, rooms, connected_users,
                   user_rooms, store, last>>

\* join_conversation: lines 190-200, then from `await sio.enter_room` on
RunJoin(i) ==
    LET t == loop.tasks[i] IN
    /\ t.kind = "join_conversation" /\ Runnable(loop, i)
    /\ UNCHANGED <<crypto, uuid_imported, transport, connected_users, store, last>>
    /\ IF t.pc = "start"
       THEN /\ UNCHANGED <<rooms, user_rooms>>
            /\ loop' = SetTask(loop, i,
                 IF t.sid \notin DOMAIN connected_users
                    \/ Falsy(Get(t.data, "conversation_id", None))
                 THEN [t EXCEPT !.pc = "done"]
                 ELSE [t EXCEPT !.pc = "enter_room",
                                !.user_id = connected_users[t.sid].user_id])
       ELSE \* enter_room for a session the server has closed either raises
            \* or adds the sid to the room, depending on the server's version
            \E outcome \in (IF transport[t.sid] = "connected"
                            THEN {"enters"} ELSE {"enters", "raises"}) :
              IF outcome = "raises"
              THEN /\ UNCHANGED <<rooms, user_rooms>>
                   /\ loop' = SetTask(loop, i, [t EXCEPT !.pc = "fault"])
              ELSE /\ rooms' = enter_room(rooms, t.sid, t.data.conversation_id)
                   /\ user_rooms' = join_track(user_rooms, t.user_id,
                                               t.data.conversation_id)
                   /\ loop' = SetTask(loop, i, [t EXCEPT !.pc = "done"])

\* leave_conversation: lines 232-239, then from `await sio.leave_room` on
RunLeave(i) ==
    LET t == loop.tasks[i] IN
    /\ t.kind = "leave_conversation" /\ Runnable(loop, i)
    /\ UNCHANGED <<crypto, uuid_imported, transport, connected_users, store, last>>
    /\ IF t.pc = "start"
       THEN /\ UNCHANGED <<rooms, user_rooms>>
            /\ loop' = SetTask(loop, i,
                 IF t.sid \notin DOMAIN connected_users
                    \/ Falsy(Get(t.data, "conversation_id", None))
                 THEN [t EXCEPT !.pc = "done"]
                 ELSE [t EXCEPT !.pc = "leave_room",
                                !.user_id = connected_users[t.sid].user_id])
       ELSE /\ rooms' = leave_room(rooms, t.sid, t.data.conversation_id)
            /\ user_rooms' = leave_track(user_rooms, t.user_id, t.data.conversation_id)
            /\ loop' = SetTask(loop, i, [t EXCEPT !.pc = "done"])

\* mutant: the write is dropped when the connection is gone
resume_save_cancelled(st, t) ==
    IF t.sid \in DOMAIN connected_users THEN save_message(st, t.md, TRUE) ELSE st

\* line 303, reached whatever became of the connection meanwhile
resume_save(st, t) == save_message(st, t.md, TRUE)

\* send_message: lines 260-288 up to `await get_conversation_metadata`,
\* lines 288-300 up to `await sio.emit`, line 303
RunSend(i) ==
    LET t == loop.tasks[i] IN
    /\ t.kind = "send_message" /\ Runnable(loop, i)
    /\ UNCHANGED <<crypto, uuid_imported, transport, rooms, connected_users,
                   user_rooms, last>>
    /\ IF t.pc = "start"
       THEN /\ store' = store
            /\ loop' = SetTask(loop, i,
                 IF t.sid \notin DOMAIN connected_users \/ ~send_valid(t.data)
                 THEN [t EXCEPT !.pc = "done"]
                 ELSE IF ~uuid_imported
                 THEN [t EXCEPT !.pc = "fault"]
                 ELSE [t EXCEPT !.pc = "metadata",
                                !.user_id = connected_users[t.sid].user_id,
                                !.role = connected_users[t.sid].role])
       ELSE IF t.pc = "metadata"
       THEN \E uuid \in Uuids :
            \E patient_id \in (IF t.role = "staff"
                               THEN MetadataPatients(store, t.data.conversation_id, TRUE)
                               ELSE {None}) :
              LET md == message_data(t.data, t.user_id, t.role, uuid, patient_id)
                  to == recipients(rooms, transport, md.conversation_id, {})
              IN  /\ store' = store
                  /\ loop' = SetTask(
                       broadcast(loop, i, "new_message", md.conversation_id, to),
                       i, [t EXCEPT !.pc = "save", !.md = md])
       ELSE /\ store' = resume_save(store, t)
            /\ loop' = SetTask(
                 IF store' # store THEN logged(loop, "persist", i, t.md.conversation_id)
                 ELSE loop,
                 i, [t EXCEPT !.pc = "done"])

\* user_typing: the handler up to its only await, the emit
RunTyping(i) ==
    LET t == loop.tasks[i] IN
    /\ t.kind = "user_typing" /\ Runnable(loop, i)
    /\ UNCHANGED <<crypto, uuid_imported, transport, rooms, connected_users,
                   user_rooms, store, last>>
    /\ loop' = SetTask(
         IF t.sid \notin DOMAIN connected_users \/ ~Has(t.data, "conversation_id")
         THEN loop
         ELSE broadcast(loop, i, "typing", t.data.conversation_id,
                        recipients(rooms, transport, t.data.conversation_id, {t.sid})),
         i, [t EXCEPT !.pc = "done"])

\* lines 175-177 and the server's removal of the session from its rooms
disconnect_finish(sid, rm) ==
    /\ user_rooms' = disconnect_user_rooms(sid)
    /\ connected_users' = disconnect_users(sid)
    /\ rooms' = manager_disconnect(rm, sid)

\* the session closes: the server stops taking its events and awaits the
\* disconnect handler, which runs up to its first `await sio.leave_room`
ReceiveDisconnect(sid) ==
    LET t == Task("disconnect", sid, "start")
        tracked == disconnect_tracked(sid)
    IN
    /\ transport[sid] = "connected"
    /\ Len(loop.tasks) < MaxTasks
    /\ transport' = [transport EXCEPT ![sid] = "closed"]
    /\ UNCHANGED <<crypto, uuid_imported, store, last>>
    /\ IF tracked = <<>>
       THEN /\ disconnect_finish(sid, rooms)
            /\ loop' = logged([loop EXCEPT !.tasks = Append(@, [t EXCEPT !.pc = "done"])],
                              "disconnect", Len(loop.tasks) + 1, None)
       ELSE /\ UNCHANGED <<rooms, connected_users, user_rooms>>
            /\ loop' = [loop EXCEPT !.tasks = Append(@,
                          [t EXCEPT !.pc = "leave_room",
                                    !.user_id = connected_users[sid].user_id,
                                    !.room = tracked[1], !.idx = 1,
                                    !.list = tracked])]

\* disconnect resumes in its loop over the tracked rooms (lines 173-174);
\* the list is read anew at every turn, and `del user_rooms[user_id]`
\* raises KeyError when the entry went away meanwhile
RunDisconnect(i) ==
    LET t == loop.tasks[i]
        left == leave_room(rooms, t.sid, t.room)
        list == IF t.user_id \in DOMAIN user_rooms THEN user_rooms[t.user_id] ELSE t.list
    IN
    /\ t.kind = "disconnect" /\ Runnable(loop, i)
    /\ UNCHANGED <<crypto, uuid_imported, transport, store, last>>
    /\ IF t.idx < Len(list)
       THEN /\ rooms' = left
            /\ UNCHANGED <<connected_users, user_rooms>>
            /\ loop' = SetTask(loop, i, [t EXCEPT !.idx = @ + 1,
                                                  !.room = list[t.idx + 1]])
       ELSE IF t.user_id \notin DOMAIN user_rooms
       THEN \* the handler is left by the exception; whether the server
            \* still removes the session from its rooms depends on its version
            /\ \E cleaned \in BOOLEAN :
                 rooms' = IF cleaned THEN manager_disconnect(left, t.sid) ELSE left
            /\ UNCHANGED <<connected_users, user_rooms>>
            /\ loop' = SetTask(loop, i, [t EXCEPT !.pc = "fault"])
       ELSE /\ disconnect_finish(t.sid, left)
            /\ loop' = SetTask(logged(loop, "disconnect", i, None), i,
                               [t EXCEPT !.pc = "done"])

InitTasks ==
    /\ uuid_imported = TRUE
    /\ transport = [s \in Sids |-> "idle"]
    /\ rooms = [c \in Convs |-> {}]
    /\ connected_users = <<>>
    /\ user_rooms = <<>>
    /\ store = <<SeedRow(1, TaskConv, "p1", "patient", FALSE)>>
    /\ last = [op |-> "init", sid |-> None, data |-> NoData, emits |-> <<>>,
               fault |-> FALSE, db_failed |-> FALSE, db_down |-> FALSE,
               saved |-> <<>>, steps |-> <<>>, writes |-> {}]
    /\ crypto = CryptoIdle
    /\ loop = LoopIdle

\* the handshake every client of this specification presents
TaskEnviron ==
    [keys |-> {"HTTP_AUTHORIZATION"},
     HTTP_AUTHORIZATION |-> [scheme |-> "Bearer", token |-> "token-staff-123"]]

NextTasks ==
    \/ \E sid \in Sids : Connect(sid, TaskEnviron)
    \/ \E sid \in Sids, kind \in TaskKinds : Receive(sid, kind)
    \/ \E sid \in Sids : ReceiveDisconnect(sid)
    \/ \E i \in DOMAIN loop.tasks : RunJoin(i)
    \/ \E i \in DOMAIN loop.tasks : RunLeave(i)
    \/ \E i \in DOMAIN loop.tasks : RunSend(i)
    \/ \E i \in DOMAIN loop.tasks : RunTyping(i)
    \/ \E i \in DOMAIN loop.tasks : RunDisconnect(i)

SpecTasks == InitTasks /\ [][NextTasks]_vars
(***************************************************************************)
(* Properties                                                              *)
(***************************************************************************)
Authenticated(sid) == sid \in DOMAIN connected_users
EmitsOf(event) == {i \in DOMAIN last.emits : last.emits[i].event = event}
Receptions(c, event) == Cardinality({i \in EmitsOf(event) : c \in last.emits[i].to})
Count(list, x) == Cardinality({i \in DOMAIN list : list[i] = x})
Broadcasts == {"new_message", "messages_read", "typing"}

\* C1: once disconnect has run for a connection, the connection has no
\* Connection record and is in no room, and every broadcast made afterwards
\* (new_message, messages_read, typing) reaches only connections that are
\* members of the room, never the closed one, and comes with no error event
\* and no fault.
C1_DisconnectRemovesConnection ==
    \A c \in Sids : transport[c] = "closed" =>
        /\ c \notin DOMAIN connected_users
        /\ \A r \in DOMAIN rooms : c \notin rooms[r]
        /\ \A i \in DOMAIN last.emits : last.emits[i].event \in Broadcasts =>
              /\ c \notin last.emits[i].to
              /\ last.emits[i].to \subseteq Members(rooms, last.emits[i].room)
              /\ EmitsOf("error") = {}
              /\ ~last.fault

\* C1 witness: disconnect has just removed an authenticated connection from
\* a room, while another connection is still a member of every room.
C1_Witness ==
    /\ last.op = "disconnect"
    /\ {"rooms", "connected_users"} \subseteq last.writes
    /\ \E d \in Sids : d # last.sid /\ \A r \in DOMAIN rooms : d \in rooms[r]

\* C2: however often a connection joins a conversation, the conversation
\* is in the tracked room list exactly once and the connection is a member
\* of the room, and a new_message broadcast to a room is received exactly
\* once by each of its members.
C2_JoinIdempotent ==
    /\ \A u \in DOMAIN user_rooms : \A r \in Convs : Count(user_rooms[u], r) <= 1
    /\ (last.op = "join_conversation" /\ EmitsOf("joined_conversation") # {}) =>
          /\ last.sid \in rooms[last.data.conversation_id]
          /\ Count(user_rooms[connected_users[last.sid].user_id],
                   last.data.conversation_id) = 1
    /\ \A i \in EmitsOf("new_message") :
          \A c \in Members(rooms, last.emits[i].room) :
              Receptions(c, "new_message") = 1

\* C2 witness: a join of a room the connection was already in and that was
\* already tracked: it is acknowledged and changes nothing.
C2_Witness ==
    /\ last.op = "join_conversation"
    /\ EmitsOf("joined_conversation") # {}
    /\ last.writes = {}

\* C3: a send_message of an authenticated connection without `content` or
\* without `conversation_id` makes exactly one emit, an `error` that reaches
\* the sender alone; nothing is broadcast, nothing is handed to storage and
\* the messages table is unchanged.
C3_MissingFieldsRejected ==
    (/\ last.op = "send_message"
     /\ Authenticated(last.sid)
     /\ ~(Has(last.data, "conversation_id") /\ Has(last.data, "content"))) =>
        /\ Len(last.emits) = 1
        /\ last.emits[1].event = "error"
        /\ last.emits[1].to = {last.sid}
        /\ last.saved = <<>>
        /\ "store" \notin last.writes
        /\ ~last.fault

\* C3 witness: a send_message without `content` to a conversation that
\* another connection has joined.
C3_Witness ==
    /\ last.op = "send_message"
    /\ Authenticated(last.sid)
    /\ Has(last.data, "conversation_id")
    /\ ~Has(last.data, "content")
    /\ \E d \in Sids : d # last.sid /\ d \in rooms[last.data.conversation_id]

\* C4: every validated send_message of an authenticated connection makes
\* one new_message broadcast that reaches exactly the members of the
\* conversation's room.
C4_NewMessageReachesRoom ==
    (/\ last.op = "send_message"
     /\ Authenticated(last.sid)
     /\ Has(last.data, "conversation_id")
     /\ Has(last.data, "content")) =>
        /\ Len(last.emits) = 1
        /\ last.emits[1].event = "new_message"
        /\ last.emits[1].to = Members(rooms, last.data.conversation_id)
\* C6 (as amended): a mark_as_read of an authenticated connection with a
\* non-empty id list, storage working, sets read and read_at on exactly the
\* rows whose id is in the list and leaves every other row and field as it
\* was; ids without a row cause no error; one messages_read event is
\* emitted when the payload carries a conversation_id and none when it does
\* not.  With an empty or missing id list the requester gets one error,
\* no messages_read is emitted and no row changes.
C6_Ids(l) == Get(l.data, "message_ids", <<>>)
C6_IdSet(l) == {C6_Ids(l)[k] : k \in DOMAIN C6_Ids(l)}
C6_Events(l, event) == {i \in DOMAIN l.emits : l.emits[i].event = event}

C6_Step ==
    (/\ last'.op = "mark_as_read"
     /\ last'.sid \in DOMAIN connected_users
     /\ ~last'.db_failed) =>
        IF C6_Ids(last') = <<>>
        THEN /\ Len(last'.emits) = 1
             /\ last'.emits[1].event = "error"
             /\ last'.emits[1].to = {last'.sid}
             /\ store' = store
        ELSE /\ DOMAIN store' = DOMAIN store
             /\ \A i \in DOMAIN store :
                   IF store[i].id \in C6_IdSet(last')
                   THEN /\ store'[i].read = TRUE
                        /\ store'[i].read_at # None
                        /\ store'[i] = [store[i] EXCEPT !.read = store'[i].read,
                                                        !.read_at = store'[i].read_at]
                   ELSE store'[i] = store[i]
             /\ C6_Events(last', "error") = {}
             /\ ~last'.fault
             /\ Cardinality(C6_Events(last', "messages_read")) =
                   IF Falsy(Get(last'.data, "conversation_id", None)) THEN 0 ELSE 1
             /\ Len(last'.emits) = Cardinality(C6_Events(last', "messages_read"))

C6_MarkAsReadMarksResolved == [][C6_Step]_vars

\* C6 witness: a request naming the first row and an id no row has, sent
\* with a conversation_id: the first row has just become read, a second row
\* is still unread and one messages_read was emitted.
C6_Witness ==
    /\ last.op = "mark_as_read"
    /\ Authenticated(last.sid)
    /\ last.data.message_ids = <<1, UnknownId>>
    /\ ~last.db_failed
    /\ "store" \in last.writes
    /\ Len(store) >= 2
    /\ store[1].read
    /\ ~store[2].read
    /\ Cardinality(EmitsOf("messages_read")) = 1

\* C6 as first stated: every mark_as_read with a non-empty id list, with or
\* without a conversation_id, emits exactly one messages_read event.
C6_AlwaysOneMessagesRead ==
    (/\ last.op = "mark_as_read"
     /\ Authenticated(last.sid)
     /\ C6_Ids(last) # <<>>
     /\ ~last.db_failed) =>
        /\ EmitsOf("error") = {}
        /\ Cardinality(EmitsOf("messages_read")) = 1

\* C7: a messages_read event is made by mark_as_read only, for the room the
\* request names, reaches every member of that room other than the
\* requester, never the requester, and carries the requested id list and
\* the requester's participant id.
C7_MessagesReadSkipsRequester ==
    \A i \in EmitsOf("messages_read") :
        /\ last.op = "mark_as_read"
        /\ last.emits[i].room = last.data.conversation_id
        /\ last.emits[i].to = Members(rooms, last.data.conversation_id) \ {last.sid}
        /\ last.sid \notin last.emits[i].to
        /\ last.emits[i].data.message_ids = last.data.message_ids
        /\ last.emits[i].data.user_id = connected_users[last.sid].user_id

\* C7 witness: the requester and another connection are both in the room
\* and the event reached the other one.
C7_Witness ==
    /\ last.op = "mark_as_read"
    /\ \E i \in EmitsOf("messages_read") :
          /\ last.sid \in Members(rooms, last.emits[i].room)
          /\ last.emits[i].to # {}

\* C8: a conversation_history response goes to the requester alone and
\* holds at most `limit` messages, all of the requested conversation, each
\* a stored row, none twice, newest first, and the k-th of them stands at
\* position offset + k of the conversation's rows ordered by creation time
\* descending; their number is what is left of the conversation after
\* `offset` rows, capped at `limit`.
HistoryResponse ==
    /\ last.op = "get_conversation_history"
    /\ EmitsOf("conversation_history") # {}
HistLimit == Get(last.data, "limit", DefaultLimit)
HistOffset == Get(last.data, "offset", DefaultOffset)
HistRowsOfConv == {i \in DOMAIN store : store[i].conversation_id = last.data.conversation_id}
HistNewer(t) == Cardinality({i \in HistRowsOfConv : store[i].created_at > t})
HistNotOlder(t) == Cardinality({i \in HistRowsOfConv : store[i].created_at >= t})
HistExpectedCount ==
    LET rest == Cardinality(HistRowsOfConv) - HistOffset
    IN  IF rest <= 0 THEN 0 ELSE IF rest < HistLimit THEN rest ELSE HistLimit

C8_HistoryPage ==
    HistoryResponse =>
        LET msgs == last.emits[1].data.messages IN
        /\ Len(last.emits) = 1
        /\ last.emits[1].to = {last.sid}
        /\ last.emits[1].data.conversation_id = last.data.conversation_id
        /\ Len(msgs) <= HistLimit
        /\ Len(msgs) = HistExpectedCount
        /\ \A k \in DOMAIN msgs :
              /\ msgs[k].conversation_id = last.data.conversation_id
              /\ \E i \in HistRowsOfConv :
                    /\ msgs[k].id = store[i].id
                    /\ msgs[k].timestamp = store[i].created_at
                    /\ msgs[k].content = store[i].content
                    /\ msgs[k].read = store[i].read
              /\ HistNewer(msgs[k].timestamp) < HistOffset + k
              /\ HistOffset + k <= HistNotOlder(msgs[k].timestamp)
        /\ \A k \in DOMAIN msgs : \A j \in DOMAIN msgs :
              /\ (k < j => msgs[k].timestamp >= msgs[j].timestamp)
              /\ (k # j => msgs[k].id # msgs[j].id)

\* C8 witness: a page of two messages taken after skipping one, from a
\* conversation of at least four rows, while the table also holds a row of
\* another conversation.
C8_Witness ==
    /\ HistoryResponse
    /\ HistLimit = 2
    /\ HistOffset = 1
    /\ Len(last.emits[1].data.messages) = 2
    /\ Cardinality(HistRowsOfConv) >= 4
    /\ \E i \in DOMAIN store : i \notin HistRowsOfConv

\* C9: in every conversation_history response has_more is true exactly
\* when the number of returned messages equals the requested limit: limit 2
\* against 5 rows returns the 2 most recent with has_more true, limit 2
\* against 2 rows returns both with has_more true, limit 10 against 2 rows
\* returns both with has_more false.
C9_HasMore ==
    HistoryResponse =>
        LET msgs == last.emits[1].data.messages
            n == Cardinality(HistRowsOfConv)
        IN  /\ last.emits[1].data.has_more = (Len(msgs) = HistLimit)
            /\ last.emits[1].data.total = Len(msgs)
            /\ (n = 5 /\ HistLimit = 2 /\ HistOffset = 0) =>
                  /\ Len(msgs) = 2
                  /\ last.emits[1].data.has_more = TRUE
                  /\ \A i \in HistRowsOfConv :
                        (\A k \in DOMAIN msgs : msgs[k].id # store[i].id) =>
                            \A k \in DOMAIN msgs : store[i].created_at <= msgs[k].timestamp
            /\ (n = 2 /\ HistLimit = 2 /\ HistOffset = 0) =>
                  Len(msgs) = 2 /\ last.emits[1].data.has_more = TRUE
            /\ (n = 2 /\ HistLimit = 10 /\ HistOffset = 0) =>
                  Len(msgs) = 2 /\ last.emits[1].data.has_more = FALSE

\* C9 witness: limit 2 against a conversation of exactly 5 rows.
C9_Witness ==
    /\ HistoryResponse
    /\ Cardinality(HistRowsOfConv) = 5
    /\ HistLimit = 2
    /\ HistOffset = 0
    /\ last.emits[1].data.has_more = TRUE

\* C10: a get_unread_count of an authenticated connection that names a
\* conversation makes one emit, an unread_count to the requester, whose
\* count is the number of unread rows of that conversation authored by the
\* other party class (patient rows for staff, staff rows for a patient).
C10_UnreadCountOfConversation ==
    (/\ last.op = "get_unread_count"
     /\ Authenticated(last.sid)
     /\ ~Falsy(Get(last.data, "conversation_id", None))
     /\ ~last.db_failed) =>
        /\ Len(last.emits) = 1
        /\ last.emits[1].event = "unread_count"
        /\ last.emits[1].to = {last.sid}
        /\ last.emits[1].data.conversation_id = last.data.conversation_id
        /\ last.emits[1].data.count =
              Cardinality({i \in DOMAIN store :
                  /\ store[i].conversation_id = last.data.conversation_id
                  /\ store[i].read = FALSE
                  /\ store[i].sender_type =
                        IF connected_users[last.sid].role = "staff"
                        THEN "patient" ELSE "staff"})

\* C11: a get_unread_count of an authenticated connection that names no
\* conversation makes one emit, an unread_counts to the requester, whose
\* by_conversation map gives for each conversation the number of unread
\* rows authored by the other party class (for a patient requester only
\* rows whose patient_id is the requester's id) and whose total is the sum
\* of the map's values.
C11_Counted(c) ==
    {i \in DOMAIN store :
        /\ store[i].conversation_id = c
        /\ store[i].read = FALSE
        /\ IF connected_users[last.sid].role = "staff"
           THEN store[i].sender_type = "patient"
           ELSE /\ store[i].sender_type = "staff"
                /\ store[i].patient_id = connected_users[last.sid].user_id}

C11_UnreadCountsOfAll ==
    (/\ last.op = "get_unread_count"
     /\ Authenticated(last.sid)
     /\ Falsy(Get(last.data, "conversation_id", None))
     /\ ~last.db_failed) =>
        /\ Len(last.emits) = 1
        /\ last.emits[1].event = "unread_counts"
        /\ last.emits[1].to = {last.sid}
        /\ DOMAIN last.emits[1].data.by_conversation =
              {c \in Convs : C11_Counted(c) # {}}
        /\ \A c \in DOMAIN last.emits[1].data.by_conversation :
              last.emits[1].data.by_conversation[c] = Cardinality(C11_Counted(c))
        /\ last.emits[1].data.total =
              Cardinality(UNION {C11_Counted(c) : c \in Convs})

\* C12: a connect whose bearer credential is missing or invalid is refused,
\* creates no Connection record and emits nothing; a connect with a valid
\* credential creates the Connection record holding the participant id and
\* role the credential was issued for and emits one auth_success with that
\* id and role to that connection only.
C12_Issued ==
    [t \in {"token-staff-123", "token-patient-p1"} |->
        IF t = "token-staff-123" THEN [user_id |-> "123", role |-> "staff"]
        ELSE [user_id |-> "p1", role |-> "patient"]]

C12_ConnectChecksCredential ==
    last.op = "connect" =>
        LET header == Get(last.data, "HTTP_AUTHORIZATION", NoHeader) IN
        IF header.scheme = "Bearer" /\ header.token \in DOMAIN C12_Issued
        THEN /\ last.sid \in DOMAIN connected_users
             /\ connected_users[last.sid] = C12_Issued[header.token]
             /\ Len(last.emits) = 1
             /\ last.emits[1].event = "auth_success"
             /\ last.emits[1].data = C12_Issued[header.token]
             /\ last.emits[1].to = {last.sid}
        ELSE /\ last.sid \notin DOMAIN connected_users
             /\ transport[last.sid] = "refused"
             /\ last.emits = <<>>

\* C13: every event handler run for a connection without a Connection
\* record makes exactly one emit, an `error` addressed to that connection,
\* changes no registry, room or message state and raises no fault.
C13_Handlers ==
    {"join_conversation", "leave_conversation", "send_message", "mark_as_read",
     "user_typing", "get_conversation_history", "get_unread_count"}

C13_UnauthenticatedGetsError ==
    (last.op \in C13_Handlers /\ ~Authenticated(last.sid)) =>
        /\ Len(last.emits) = 1
        /\ last.emits[1].event = "error"
        /\ last.emits[1].room = None
        /\ last.emits[1].to \subseteq {last.sid}
        /\ last.writes = {}
        /\ ~last.fault

C15_Step ==
    (/\ last'.op = "send_message"
     /\ last'.sid \in DOMAIN connected_users
     /\ Has(last'.data, "conversation_id")
     /\ Has(last'.data, "content")
     /\ uuid_imported
     /\ ~last'.db_down) =>
        /\ Len(store') = Len(store) + 1
        /\ SubSeq(store', 1, Len(store)) = store
        /\ store'[Len(store')].conversation_id = last'.data.conversation_id
        /\ store'[Len(store')].content = last'.data.content

C15_ValidSendIsStored == [][C15_Step]_vars

\* C16: every message built by send_message and every row of the messages
\* table is either patient-authored (sender_type "patient", patient_id set,
\* user_id null) or staff-authored (sender_type "staff", user_id set), and
\* a staff-authored message built by send_message carries the participant
\* id of the sending connection.
C16_PatientAuthored(m) ==
    m.sender_type = "patient" /\ m.patient_id # None /\ m.user_id = None
C16_StaffAuthored(m) ==
    m.sender_type = "staff" /\ m.user_id # None

C16_SenderTypeAgrees ==
    /\ \A i \in DOMAIN store :
          C16_PatientAuthored(store[i]) \/ C16_StaffAuthored(store[i])
    /\ (last.op = "send_message" /\ last.saved # <<>>) =>
          /\ C16_PatientAuthored(last.saved[1]) \/ C16_StaffAuthored(last.saved[1])
          /\ last.saved[1].sender_type = connected_users[last.sid].role
          /\ C16_StaffAuthored(last.saved[1]) =>
                last.saved[1].user_id = connected_users[last.sid].user_id

\* C16 witness: a staff message has just been built and stored next to a
\* patient-authored row.
C16_Witness ==
    /\ last.op = "send_message"
    /\ last.saved # <<>>
    /\ "store" \in last.writes
    /\ C16_StaffAuthored(store[Len(store)])
    /\ \E i \in DOMAIN store : C16_PatientAuthored(store[i])

C18_TamperedIsRejected ==
    (/\ crypto.op = "decrypt_message"
     /\ \/ crypto.given.encrypted # crypto.envelope.encrypted
        \/ crypto.given.nonce # crypto.envelope.nonce
        \/ {crypto.private, crypto.public} # {crypto.sender, crypto.recipient}) =>
        ~crypto.result.ok

\* C19: the key directory never holds a private key, whatever key text the
\* store operations are handed, and no operation returns a private key
\* except get_system_keypair, which returns the system's configured one.
C19_NoPrivateKeyInDirectory ==
    /\ \A p \in DOMAIN crypto.directory : crypto.directory[p].kind # "private"
    /\ \A i \in DOMAIN crypto.returned :
          crypto.returned[i].kind = "private" =>
              /\ crypto.op = "get_system_keypair"
              /\ crypto.returned[i] = KeyText("private", "system")
    /\ crypto.op \in {"get_user_public_key", "get_patient_public_key"} =>
          /\ Len(crypto.returned) = 1
          /\ crypto.returned[1].kind = "public_placeholder"

\* C19 witness: a store operation was handed a participant's private key
\* in place of the public one.
C19_Witness ==
    /\ crypto.op \in {"store_user_public_key", "store_patient_public_key"}
    /\ crypto.public_key.kind = "private"

\* C20: a disconnect handled for a connection without a Connection record
\* (closed before, or refused at the handshake) changes no Connection
\* record, no tracked room list, no room membership and no message, emits
\* nothing and raises no fault.
C20_Step ==
    (last'.op = "disconnect" /\ last'.sid \notin DOMAIN connected_users) =>
        /\ connected_users' = connected_users
        /\ user_rooms' = user_rooms
        /\ rooms' = rooms
        /\ store' = store
        /\ last'.emits = <<>>
        /\ ~last'.fault

C20_DisconnectIdempotent == [][C20_Step]_vars

\* C20 witness: a second disconnect of a connection has been handled while
\* another connection is authenticated, has joined a room and is tracked.
C20_Witness ==
    /\ last.op = "disconnect"
    /\ transport[last.sid] = "closed"
    /\ last.writes = {}
    /\ \E d \in Sids : /\ d # last.sid
                        /\ Authenticated(d)
                        /\ d \in rooms["c1"]
                        /\ TokenUserId \in DOMAIN user_rooms

(***************************************************************************)
(* C21: leave_conversation(c, r) by an authenticated connection emits no   *)
(* event and raises no fault; when r is missing, empty or not joined by c  *)
(* it changes neither the room memberships nor the tracked rooms;          *)
(* otherwise it removes c from r's members and r from c's tracked rooms,   *)
(* so that no broadcast to r reaches c until it joins r again.             *)
(***************************************************************************)
C21_Step ==
    \A sid \in Sids :
        (last'.op = "leave_conversation" /\ last'.sid = sid /\ Authenticated(sid)) =>
            LET r == Get(last'.data, "conversation_id", None)
                user_id == connected_users[sid].user_id
            IN  /\ last'.emits = <<>>
                /\ ~last'.fault
                /\ IF r = None \/ r = "" \/ sid \notin Members(rooms, r)
                   THEN rooms' = rooms /\ user_rooms' = user_rooms
                   ELSE /\ sid \notin Members(rooms', r)
                        /\ user_id \in DOMAIN user_rooms' =>
                              Count(user_rooms'[user_id], r) = 0

C21_LeaveIsOwnOnly == [][C21_Step]_vars

(***************************************************************************)
(* C22: user_typing(c, r) by an authenticated connection makes one         *)
(* `typing` broadcast that reaches every member of room r except c and     *)
(* does not reach c, and changes neither the messages table, the           *)
(* Connection records, the room memberships nor the tracked rooms.         *)
(***************************************************************************)
C22_TypingReachesOthersOnly ==
    (last.op = "user_typing" /\ Authenticated(last.sid)
        /\ Has(last.data, "conversation_id")) =>
        /\ Len(last.emits) = 1
        /\ last.emits[1].event = "typing"
        /\ last.emits[1].to = Members(rooms, last.data.conversation_id) \ {last.sid}
        /\ last.writes = {}

\* the sender and another connection are both in the room
C22_Witness ==
    /\ last.op = "user_typing" /\ Authenticated(last.sid)
    /\ Has(last.data, "conversation_id")
    /\ last.sid \in Members(rooms, last.data.conversation_id)
    /\ Len(last.emits) = 1
    /\ last.emits[1].to # {}

(***************************************************************************)
(* C23: join_conversation by an authenticated connection with a missing    *)
(* or empty conversation_id answers the requester with `error` and         *)
(* changes no membership; with a non-empty conversation_id it emits        *)
(* exactly one joined_conversation, carrying that id, to the requester     *)
(* only.                                                                   *)
(***************************************************************************)
C23_JoinAnswers ==
    (last.op = "join_conversation" /\ Authenticated(last.sid)) =>
        LET r == Get(last.data, "conversation_id", None) IN
        /\ Len(last.emits) = 1
        /\ last.emits[1].to = {last.sid}
        /\ IF r = None \/ r = ""
           THEN /\ last.emits[1].event = "error"
                /\ last.writes = {}
           ELSE /\ last.emits[1].event = "joined_conversation"
                /\ last.emits[1].data.conversation_id = r

\* an empty conversation_id was refused
C23_Witness ==
    /\ last.op = "join_conversation" /\ Authenticated(last.sid)
    /\ Has(last.data, "conversation_id") /\ last.data.conversation_id = ""
    /\ Len(last.emits) = 1 /\ last.emits[1].event = "error"

(***************************************************************************)
(* C24: a stored Message is never deleted and none of its fields other     *)
(* than read and read_at ever changes; only mark_as_read changes a stored  *)
(* row; get_conversation_history, get_unread_count, user_typing,           *)
(* join_conversation, leave_conversation, connect and disconnect leave     *)
(* the messages table as it was.                                           *)
(***************************************************************************)
C24_ReadOnlyHandlers ==
    {"get_conversation_history", "get_unread_count", "user_typing",
     "join_conversation", "leave_conversation", "connect", "disconnect"}

C24_Step ==
    /\ Len(store') >= Len(store)
    /\ \A i \in DOMAIN store :
          /\ [store'[i] EXCEPT !.read = store[i].read, !.read_at = store[i].read_at]
                = store[i]
          /\ store'[i] # store[i] => last'.op = "mark_as_read"
    /\ last'.op \in C24_ReadOnlyHandlers => store' = store

C24_MessagesOnlyGetRead == [][C24_Step]_vars

\* mark_as_read set the read flag of a stored row
C24_Witness ==
    /\ last.op = "mark_as_read" /\ "store" \in last.writes
    /\ \E i \in DOMAIN store : store[i].read

(***************************************************************************)
(* C25: for every live connection, the rooms tracked for it are exactly    *)
(* the rooms it is a member of, also when two live connections carry the   *)
(* same participant id.                                                    *)
(***************************************************************************)
TrackedOf(ur, cu, sid) ==
    IF sid \in DOMAIN cu /\ cu[sid].user_id \in DOMAIN ur
    THEN {ur[cu[sid].user_id][i] : i \in DOMAIN ur[cu[sid].user_id]}
    ELSE {}

JoinedBy(rm, sid) == {r \in DOMAIN rm : sid \in rm[r]}

C25_TrackingAgrees ==
    \A sid \in DOMAIN connected_users :
        TrackedOf(user_rooms, connected_users, sid) = JoinedBy(rooms, sid)

(***************************************************************************)
(* C26: disconnect(c) and leave_conversation(c, r) change the state of c   *)
(* alone: for every other connection d the Connection record, the room     *)
(* memberships and the tracked rooms are as before.                        *)
(***************************************************************************)
C26_Step ==
    \A c \in Sids :
        (last'.op \in {"disconnect", "leave_conversation"} /\ last'.sid = c) =>
            \A d \in Sids \ {c} :
                /\ (d \in DOMAIN connected_users) = (d \in DOMAIN connected_users')
                /\ d \in DOMAIN connected_users => connected_users'[d] = connected_users[d]
                /\ JoinedBy(rooms', d) = JoinedBy(rooms, d)
                /\ TrackedOf(user_rooms', connected_users', d)
                     = TrackedOf(user_rooms, connected_users, d)

C26_OthersUntouched == [][C26_Step]_vars

(***************************************************************************)
(* Tasks and the log                                                       *)
(***************************************************************************)
\* the position in the log of what task i did, 0 when it has not done it
LogPos(what, i) ==
    IF \E k \in DOMAIN loop.log : loop.log[k].what = what /\ loop.log[k].task = i
    THEN CHOOSE k \in DOMAIN loop.log : loop.log[k].what = what /\ loop.log[k].task = i
    ELSE 0

SendTasks == {i \in DOMAIN loop.tasks : loop.tasks[i].kind = "send_message"}

(***************************************************************************)
(* C27: of two send_message events of one connection for the same room,    *)
(* the one received first has its new_message broadcast first and its      *)
(* record stored first.                                                    *)
(***************************************************************************)
C27_SendsInReceiptOrder ==
    \A i \in SendTasks : \A j \in SendTasks :
        (i < j /\ loop.tasks[i].sid = loop.tasks[j].sid
               /\ loop.tasks[i].data.conversation_id = loop.tasks[j].data.conversation_id) =>
            \A what \in {"broadcast", "persist"} :
                LogPos(what, j) # 0 =>
                    (LogPos(what, i) # 0 /\ LogPos(what, i) < LogPos(what, j))

C29_NoDanglingState ==
    /\ \A r \in DOMAIN rooms : rooms[r] \subseteq DOMAIN connected_users
    /\ \A u \in DOMAIN user_rooms :
          user_rooms[u] # <<>> =>
              \E s \in DOMAIN connected_users : connected_users[s].user_id = u
    /\ \A i \in DOMAIN loop.tasks : loop.tasks[i].pc # "fault"

(***************************************************************************)
(* C30: a send_message that was validated is not stopped by the            *)
(* disconnect of its connection: it leaves its wait for storage only by    *)
(* storing its message, and the row stored is the one the connection's     *)
(* identity at validation and the payload determine.                       *)
(***************************************************************************)
C30_Step ==
    \A i \in SendTasks :
        LET t == loop.tasks[i]
            u == loop'.tasks[i]
        IN  /\ (t.pc = "metadata" /\ u.pc # "metadata") => u.pc = "save"
            /\ (t.pc = "save" /\ u.pc # "save") =>
                  /\ u.pc = "done"
                  /\ Len(store') = Len(store) + 1
                  /\ SubSeq(store', 1, Len(store)) = store
                  /\ LET row == store'[Len(store')] IN
                        /\ row.conversation_id = t.data.conversation_id
                        /\ row.content = t.data.content
                        /\ row.user_id = TokenUserId
                        /\ row.sender_type = TokenRole
                        /\ row.patient_id \in {store[k].patient_id : k \in RowsOf(store, t.data.conversation_id)}
                        /\ ~row.read

C30_SendOutlivesDisconnect == [][C30_Step]_vars

\* the connection's disconnect finished between the broadcast and the
\* storing of its message
C30_Witness ==
    \E i \in SendTasks : \E j \in DOMAIN loop.tasks :
        /\ loop.tasks[j].kind = "disconnect"
        /\ loop.tasks[j].sid = loop.tasks[i].sid
        /\ LogPos("broadcast", i) # 0
        /\ LogPos("broadcast", i) < LogPos("disconnect", j)
        /\ LogPos("disconnect", j) < LogPos("persist", i)

(***************************************************************************)
(* C31: the id carried in a new_message broadcast identifies the record    *)
(* that send_message stores: when a connection that got the broadcast      *)
(* answers with mark_as_read for that id and storage works, exactly that   *)
(* record becomes read.                                                    *)
(***************************************************************************)
C31_Step ==
    (/\ last.op = "send_message" /\ last.saved # <<>> /\ "store" \in last.writes
     /\ last'.op = "mark_as_read" /\ Authenticated(last'.sid)
     /\ last'.sid \in last.emits[1].to
     /\ Get(last'.data, "message_ids", <<>>) = <<last.emits[1].data.id>>
     /\ ~last'.db_down) =>
        /\ Len(store') = Len(store)
        /\ store'[Len(store)].read
        /\ \A i \in 1 .. (Len(store) - 1) : store'[i] = store[i]

C31_BroadcastIdMarksRecord == [][C31_Step]_vars

(***************************************************************************)
(* C32: send_message, mark_as_read, user_typing, get_conversation_history  *)
(* and get_unread_count leave the Connection records, the tracked rooms    *)
(* and every room's members as they were, whether they succeed or fail.    *)
(***************************************************************************)
C32_Handlers ==
    {"send_message", "mark_as_read", "user_typing", "get_conversation_history",
     "get_unread_count"}

C32_RegistryUntouched ==
    last.op \in C32_Handlers =>
        last.writes \cap {"connected_users", "user_rooms", "rooms"} = {}

\* a send that failed, with a connection in a room
C32_Witness ==
    /\ last.op = "send_message" /\ (last.fault \/ last.db_failed)
    /\ \E r \in DOMAIN rooms : rooms[r] # {}

(***************************************************************************)
(* C33: every validated send_message of a staff connection with            *)
(* participant id U to conversation r is broadcast as new_message with     *)
(* user_id U and sender_type "staff"; its patient_id is that of a message  *)
(* r already holds when there is one, and empty when r holds none.         *)
(***************************************************************************)
C33_Patients(st, r) == {st[k].patient_id : k \in RowsOf(st, r)}

C33_Step ==
    (/\ last'.op = "send_message" /\ Authenticated(last'.sid)
     /\ connected_users[last'.sid].role = "staff"
     /\ send_valid(last'.data)) =>
        /\ Len(last'.emits) = 1
        /\ last'.emits[1].event = "new_message"
        /\ last'.emits[1].room = last'.data.conversation_id
        /\ LET md == last'.emits[1].data
               known == C33_Patients(store, last'.data.conversation_id)
           IN  /\ md.user_id = connected_users[last'.sid].user_id
               /\ md.sender_type = "staff"
               /\ IF known = {} THEN md.patient_id = None
                  ELSE md.patient_id \in known

C33_StaffMessageResolved == [][C33_Step]_vars

(***************************************************************************)
(* C34: no fault leaves an event handler: a handler in which a fault       *)
(* arose has answered with `error` (or refused the connection), and has    *)
(* changed no Connection record and no room membership.                    *)
(***************************************************************************)
C34_FaultsAreCaught ==
    /\ ~last.fault
    /\ (last.db_down /\ last.op # "send_message") =>
          /\ EmitsOf("error") # {}
          /\ last.writes \cap {"connected_users", "rooms"} = {}

(***************************************************************************)
(* C35: when storage fails during get_conversation_history or              *)
(* get_unread_count, the requester gets exactly one `error` and no         *)
(* conversation_history, unread_count or unread_counts, and no other       *)
(* connection gets anything.                                               *)
(***************************************************************************)
C35_ReadFailureIsOneError ==
    (/\ last.op \in {"get_conversation_history", "get_unread_count"}
     /\ Authenticated(last.sid)
     /\ last.db_down) =>
        /\ Len(last.emits) = 1
        /\ last.emits[1].event = "error"
        /\ last.emits[1].to = {last.sid}

\* the history query failed while another connection was open
C35_Witness ==
    /\ last.op = "get_conversation_history" /\ Authenticated(last.sid)
    /\ last.db_down
    /\ \E d \in Sids \ {last.sid} : transport[d] = "connected"
    /\ Len(last.emits) = 1 /\ last.emits[1].to = {last.sid}

(***************************************************************************)
(* C36: when storage fails during a mark_as_read request, no record of     *)
(* the batch is marked read, no messages_read is broadcast, and the        *)
(* requester gets exactly one `error`.                                     *)
(***************************************************************************)
C36_FailedBatchMarksNothing ==
    (last.op = "mark_as_read" /\ Authenticated(last.sid) /\ last.db_down) =>
        /\ "store" \notin last.writes
        /\ EmitsOf("messages_read") = {}
        /\ Len(last.emits) = 1
        /\ last.emits[1].event = "error"
        /\ last.emits[1].to = {last.sid}

\* the failed batch named a stored row, which is still unread
C36_Witness ==
    /\ last.op = "mark_as_read" /\ Authenticated(last.sid) /\ last.db_down
    /\ \E k \in DOMAIN last.data.message_ids : \E i \in DOMAIN store :
          store[i].id = last.data.message_ids[k] /\ ~store[i].read

(***************************************************************************)
(* C37: every message is created with read = false and read_at empty; a    *)
(* message that is read stays read; and read_at is set exactly when read   *)
(* is true.                                                                *)
(***************************************************************************)
C37_ReadAtAgrees(st) == \A i \in DOMAIN st : st[i].read <=> st[i].read_at # None

C37_Step ==
    /\ \A i \in DOMAIN store' \ DOMAIN store :
          ~store'[i].read /\ store'[i].read_at = None
    /\ \A i \in DOMAIN store \cap DOMAIN store' : store[i].read => store'[i].read
    /\ C37_ReadAtAgrees(store) /\ C37_ReadAtAgrees(store')

C37_ReadIsMonotone == [][C37_Step]_vars

\* a row that was read earlier, after a later message was stored behind it
C37_Witness ==
    /\ last.op = "send_message" /\ "store" \in last.writes
    /\ \E i \in DOMAIN store : store[i].read
    /\ ~store[Len(store)].read
====
